---- MODULE Spec2Model ----
(***************************************************************************)
(* A model of the chunk codec of om-file-format (c/src/om_encoder.c,       *)
(* c/src/om_common.c, c/src/delta2d.c).                                    *)
(*                                                                         *)
(* Memory is modelled at byte level: a buffer is a sequence of bytes       *)
(* (0..255), a W-bit element is W/8 consecutive bytes in little-endian     *)
(* order.  A uint64_t that the code may wrap is kept as an 8-byte word and *)
(* every operation on it is computed modulo 2^64.                          *)
(***************************************************************************)
EXTENDS Integers, Sequences, FiniteSets, TLC

(***************************************************************************)
(* Arithmetic on little-endian byte words (width = Len(word) * 8 bits).    *)
(***************************************************************************)

RECURSIVE BitXor(_, _, _)
\* bitwise XOR of the low n bits of a and b
BitXor(a, b, n) ==
    IF n = 0 THEN 0
    ELSE (((a % 2) + (b % 2)) % 2) + 2 * BitXor(a \div 2, b \div 2, n - 1)

\* a ^ b on words of equal width
WXor(a, b) == [k \in 1..Len(a) |-> BitXor(a[k], b[k], 8)]

RECURSIVE WAddFrom(_, _, _, _)
WAddFrom(a, b, k, carry) ==
    IF k > Len(a) THEN <<>>
    ELSE LET s == a[k] + b[k] + carry
         IN  <<s % 256>> \o WAddFrom(a, b, k + 1, s \div 256)

\* a + b modulo 2^W (here and below the operands are bound once, x \in {a},
\* so that a word is computed once however often its bytes are read)
WAdd(a, b) == CHOOSE r \in {WAddFrom(x, y, 1, 0) : x \in {a}, y \in {b}} : TRUE

RECURSIVE WSubFrom(_, _, _, _)
WSubFrom(a, b, k, borrow) ==
    IF k > Len(a) THEN <<>>
    ELSE LET d == a[k] - b[k] - borrow
         IN  <<d % 256>> \o WSubFrom(a, b, k + 1, IF d < 0 THEN 1 ELSE 0)

\* a - b modulo 2^W
WSub(a, b) == CHOOSE r \in {WSubFrom(x, y, 1, 0) : x \in {a}, y \in {b}} : TRUE

RECURSIVE WMulFrom(_, _, _, _)
WMulFrom(a, m, k, carry) ==
    IF k > Len(a) THEN <<>>
    ELSE LET p == (a[k] * m) + carry
         IN  <<p % 256>> \o WMulFrom(a, m, k + 1, p \div 256)

\* a * m modulo 2^W, for a multiplier m that fits in 22 bits
WMulSmall(a, m) == CHOOSE r \in {WMulFrom(x, y, 1, 0) : x \in {a}, y \in {m}} : TRUE

RECURSIVE WDivFrom(_, _, _, _)
\* long division by a small divisor, from the most significant byte down;
\* yields <<quotient word, remainder>>
WDivFrom(a, m, k, rem) ==
    IF k = 0 THEN <<<<>>, rem>>
    ELSE CHOOSE r \in UNION {{<<rest[1] \o <<cur \div m>>, rest[2]>> :
                                  rest \in {WDivFrom(a, m, k - 1, cur % m)}} :
                                cur \in {(rem * 256) + a[k]}} : TRUE

\* a / m (a word) and a % m (a natural number), for 0 < m < 2^22
WDivSmall(a, m) == CHOOSE r \in {WDivFrom(x, y, Len(x), 0)[1] : x \in {a}, y \in {m}} : TRUE
WModSmall(a, m) == CHOOSE r \in {WDivFrom(x, y, Len(x), 0)[2] : x \in {a}, y \in {m}} : TRUE

RECURSIVE WLessFrom(_, _, _)
WLessFrom(a, b, k) ==
    IF k = 0 THEN FALSE
    ELSE IF a[k] # b[k] THEN a[k] < b[k]
    ELSE WLessFrom(a, b, k - 1)

\* unsigned comparison a < b, a <= b
WLess(a, b) == \E x \in {a}, y \in {b} : WLessFrom(x, y, Len(x))
WLeq(a, b) == ~WLess(b, a)

\* min(a, b) on unsigned words
WMin(a, b) == CHOOSE r \in {IF WLess(y, x) THEN y ELSE x : x \in {a}, y \in {b}} : TRUE

RECURSIVE WordOf(_, _)
\* the w-byte word of a natural number n < 2^31 (truncated to w bytes)
WordOf(n, w) == IF w = 0 THEN <<>> ELSE <<n % 256>> \o WordOf(n \div 256, w - 1)

\* a uint64_t holding the natural number n
U64(n) == WordOf(n, 8)

\* whether a word holds a value below 2^24, and that value
IsSmall(a) == \E x \in {a} : \A k \in 4..Len(x) : x[k] = 0
NatOf(a) == CHOOSE r \in {x[1] + (256 * x[2]) + (65536 * x[3]) : x \in {a}} : TRUE

\* a signed integer v (|v| < 2^31) as a w-byte two's complement word
IntWord(v, w) == IF v >= 0 THEN WordOf(v, w) ELSE WSub(WordOf(0, w), WordOf(-v, w))

(***************************************************************************)
(* Bounds of the model.                                                    *)
(***************************************************************************)

\* delta2d: the largest length0 and length1 tried
MaxLength0 == 3
MaxLength1 == 2

\* om_encoder_compress_chunk: the copy callback calls of one call the model
\* follows
MaxCopyCalls == 10

(***************************************************************************)
(* Buffers of bytes.                                                       *)
(***************************************************************************)

\* element e (0-based) of buf seen as an array of w-byte elements
Elem(buf, e, w) == SubSeq(buf, (e * w) + 1, (e * w) + w)

\* buf with the bytes from byte offset off (0-based) on replaced by bytes
\* (a write that stays inside buf)
WriteBytes(buf, off, bytes) ==
    SubSeq(buf, 1, off) \o bytes \o SubSeq(buf, off + Len(bytes) + 1, Len(buf))

\* buf with element e (0-based) of w bytes replaced by word
SetElem(buf, e, w, word) == WriteBytes(buf, e * w, word)

(***************************************************************************)
(* delta2d.c: the 2-D predictors.  A predictor is named by its encode      *)
(* function; the buffer is the chunkBuffer parameter, length0 * length1    *)
(* elements of the parameter's type.                                       *)
(***************************************************************************)

IntegerFilters ==
    {"delta2d_encode8", "delta2d_encode16", "delta2d_encode32", "delta2d_encode64"}
XorFilters == {"delta2d_encode_xor", "delta2d_encode_xor_double"}
Filters == IntegerFilters \cup XorFilters

\* sizeof the element type of the chunkBuffer parameter
\* (int8_t, int16_t, int32_t, int64_t, float, double)
ParamBytes(f) ==
    CASE f = "delta2d_encode8" -> 1
      [] f = "delta2d_encode16" -> 2
      [] f = "delta2d_encode32" -> 4
      [] f = "delta2d_encode64" -> 8
      [] f = "delta2d_encode_xor" -> 4
      [] f = "delta2d_encode_xor_double" -> 8

\* sizeof the element type the loop body indexes: the parameter's type for
\* the integer predictors, int (32 bits) for both XOR predictors, which
\* cast the buffer to int*
ViewBytes(f) ==
    CASE f = "delta2d_encode8" -> 1
      [] f = "delta2d_encode16" -> 2
      [] f = "delta2d_encode32" -> 4
      [] f = "delta2d_encode64" -> 8
      [] f = "delta2d_encode_xor" -> 4
      [] f = "delta2d_encode_xor_double" -> 4

\* chunkBuffer[d0*length1 + d1] -= (or ^=) chunkBuffer[(d0-1)*length1 + d1]
EncodeElement(f, buf, len1, row, d1) ==
    LET w    == ViewBytes(f)
        cur  == Elem(buf, (row * len1) + d1, w)
        prev == Elem(buf, ((row - 1) * len1) + d1, w)
    IN  SetElem(buf, (row * len1) + d1, w,
                IF f \in XorFilters THEN WXor(cur, prev) ELSE WSub(cur, prev))

\* a variant of DecodeElement that subtracts where the decoder adds
DecodeElementSubtracting(f, buf, len1, row, d1) ==
    LET w    == ViewBytes(f)
        cur  == Elem(buf, (row * len1) + d1, w)
        prev == Elem(buf, ((row - 1) * len1) + d1, w)
    IN  SetElem(buf, (row * len1) + d1, w,
                IF f \in XorFilters THEN WXor(cur, prev) ELSE WSub(cur, prev))

\* chunkBuffer[d0*length1 + d1] += (or ^=) chunkBuffer[(d0-1)*length1 + d1]
DecodeElement(f, buf, len1, row, d1) ==
    LET w    == ViewBytes(f)
        cur  == Elem(buf, (row * len1) + d1, w)
        prev == Elem(buf, ((row - 1) * len1) + d1, w)
    IN  SetElem(buf, (row * len1) + d1, w,
                IF f \in XorFilters THEN WXor(cur, prev) ELSE WAdd(cur, prev))

RECURSIVE EncodeRowFrom(_, _, _, _, _)
\* the inner loop of an encoder: for (d1 = 0; d1 < length1; d1++)
EncodeRowFrom(f, buf, len1, row, d1) ==
    IF d1 < len1
    THEN EncodeRowFrom(f, EncodeElement(f, buf, len1, row, d1), len1, row, d1 + 1)
    ELSE buf

RECURSIVE DecodeRowFrom(_, _, _, _, _)
\* the inner loop of a decoder: for (d1 = 0; d1 < length1; d1++)
DecodeRowFrom(f, buf, len1, row, d1) ==
    IF d1 < len1
    THEN DecodeRowFrom(f, DecodeElement(f, buf, len1, row, d1), len1, row, d1 + 1)
    ELSE buf

\* one iteration of the outer loop of an encoder, a decoder
EncodeRow(f, buf, len1, row) == EncodeRowFrom(f, buf, len1, row, 0)
DecodeRow(f, buf, len1, row) == DecodeRowFrom(f, buf, len1, row, 0)

\* the first value of the encoder's outer loop index: size_t d0 = length0-1
\* (length0 >= 2 here, after the early return)
EncodeFirstRow(len0) == len0 - 1

\* a variant of EncodeLoopCondition that stops one row early
EncodeLoopConditionEarly(row) == row >= 2

\* the encoder's outer loop condition (d0 >= 1) and step (d0--, taken only
\* from d0 >= 1, so that the size_t never wraps)
EncodeLoopCondition(row) == row >= 1
EncodeNextRow(row) == row - 1

RECURSIVE EncodeRowsFrom(_, _, _, _)
\* the outer loop of an encoder from index row on
EncodeRowsFrom(f, buf, len1, row) ==
    IF EncodeLoopCondition(row)
    THEN EncodeRowsFrom(f, EncodeRow(f, buf, len1, row), len1, EncodeNextRow(row))
    ELSE buf

\* if (length0 <= 1) return;
EarlyReturn(len0) == len0 <= 1

\* a whole call delta2d_encode*(length0, length1, chunkBuffer)
Delta2dEncode(f, len0, len1, buf) ==
    IF EarlyReturn(len0) THEN buf ELSE EncodeRowsFrom(f, buf, len1, EncodeFirstRow(len0))

\* the decoder's outer loop: for (size_t d0 = 1; d0 < length0; d0++)
DecodeFirstRow == 1
DecodeLoopCondition(row, len0) == row < len0
DecodeNextRow(row) == row + 1

(***************************************************************************)
(* The enumerations of om_common.h.                                        *)
(***************************************************************************)

DATA_TYPE_INT8_ARRAY == 13
DATA_TYPE_UINT8_ARRAY == 14
DATA_TYPE_INT16_ARRAY == 15
DATA_TYPE_UINT16_ARRAY == 16
DATA_TYPE_INT32_ARRAY == 17
DATA_TYPE_UINT32_ARRAY == 18
DATA_TYPE_INT64_ARRAY == 19
DATA_TYPE_UINT64_ARRAY == 20
DATA_TYPE_FLOAT_ARRAY == 21
DATA_TYPE_DOUBLE_ARRAY == 22

COMPRESSION_PFOR_DELTA2D_INT16 == 0
COMPRESSION_FPX_XOR2D == 1
COMPRESSION_PFOR_DELTA2D == 2
COMPRESSION_PFOR_DELTA2D_INT16_LOGARITHMIC == 3

ERROR_OK == "ERROR_OK"
ERROR_INVALID_COMPRESSION_TYPE == "ERROR_INVALID_COMPRESSION_TYPE"
ERROR_INVALID_DATA_TYPE == "ERROR_INVALID_DATA_TYPE"

\* what a field holds that no statement has assigned yet
Unassigned == "unassigned"

\* an OmEncoder_t before om_encoder_init (its floats are the float 0)
NewEncoder ==
    [scale_factor |-> [nan |-> FALSE, num |-> 0, den |-> 1],
     add_offset |-> [nan |-> FALSE, num |-> 0, den |-> 1],
     dimensions |-> <<>>, chunks |-> <<>>, dimension_count |-> 0,
     bytes_per_element |-> 0, bytes_per_element_compressed |-> 0,
     compress_copy_callback |-> Unassigned,
     compress_filter_callback |-> Unassigned,
     compress_callback |-> Unassigned]

\* an OmElementSize_t before om_get_element_size
NewElementSize == [bytes_per_element |-> 0, bytes_per_element_compressed |-> 0]

(***************************************************************************)
(* om_encoder.c: om_encoder_init.  Each switch yields the error it returns *)
(* (ERROR_OK when it falls through to the next statement) and the encoder  *)
(* as it left it.                                                          *)
(***************************************************************************)

Sized(e, bytes, compressed) ==
    [e EXCEPT !.bytes_per_element = bytes,
              !.bytes_per_element_compressed = compressed]

Stages(e, filter, compress) ==
    [e EXCEPT !.compress_filter_callback = filter,
              !.compress_callback = compress]

WithCopy(e, copy) == [e EXCEPT !.compress_copy_callback = copy]

\* switch (data_type): element sizes and copy function
InitDataTypeSwitch(e, data_type) ==
    CASE data_type \in {DATA_TYPE_INT8_ARRAY, DATA_TYPE_UINT8_ARRAY} ->
            [error |-> ERROR_OK, encoder |-> WithCopy(Sized(e, 1, 1), "om_common_copy8")]
      [] data_type \in {DATA_TYPE_INT16_ARRAY, DATA_TYPE_UINT16_ARRAY} ->
            [error |-> ERROR_OK, encoder |-> WithCopy(Sized(e, 2, 2), "om_common_copy16")]
      [] data_type \in {DATA_TYPE_INT32_ARRAY, DATA_TYPE_UINT32_ARRAY,
                        DATA_TYPE_FLOAT_ARRAY} ->
            [error |-> ERROR_OK, encoder |-> WithCopy(Sized(e, 4, 4), "om_common_copy32")]
      [] data_type \in {DATA_TYPE_INT64_ARRAY, DATA_TYPE_UINT64_ARRAY,
                        DATA_TYPE_DOUBLE_ARRAY} ->
            [error |-> ERROR_OK, encoder |-> WithCopy(Sized(e, 8, 8), "om_common_copy32")]
      [] OTHER -> [error |-> ERROR_INVALID_DATA_TYPE, encoder |-> e]

\* case COMPRESSION_FPX_XOR2D: switch (data_type)
InitFpxXor2d(e, data_type) ==
    CASE data_type = DATA_TYPE_FLOAT_ARRAY ->
            [error |-> ERROR_OK,
             encoder |-> Stages(e, "delta2d_encode_xor", "om_common_compress_fpxenc32")]
      [] data_type = DATA_TYPE_DOUBLE_ARRAY ->
            [error |-> ERROR_OK,
             encoder |-> Stages(e, "delta2d_encode_xor_double", "om_common_compress_fpxenc64")]
      [] OTHER -> [error |-> ERROR_INVALID_DATA_TYPE, encoder |-> e]

\* case COMPRESSION_PFOR_DELTA2D: switch (data_type)
InitPforDelta2d(e, data_type) ==
    CASE data_type = DATA_TYPE_INT8_ARRAY ->
            [error |-> ERROR_OK, encoder |-> Stages(e, "delta2d_encode8", "p4nzenc8")]
      [] data_type = DATA_TYPE_UINT8_ARRAY ->
            [error |-> ERROR_OK, encoder |-> Stages(e, "delta2d_encode8", "p4ndenc8")]
      [] data_type = DATA_TYPE_INT16_ARRAY ->
            [error |-> ERROR_OK, encoder |-> Stages(e, "delta2d_encode16", "p4nzenc128v16")]
      [] data_type = DATA_TYPE_UINT16_ARRAY ->
            [error |-> ERROR_OK, encoder |-> Stages(e, "delta2d_encode16", "p4ndenc128v16")]
      [] data_type = DATA_TYPE_INT32_ARRAY ->
            [error |-> ERROR_OK, encoder |-> Stages(e, "delta2d_encode32", "p4nzenc128v32")]
      [] data_type = DATA_TYPE_UINT32_ARRAY ->
            [error |-> ERROR_OK, encoder |-> Stages(e, "delta2d_encode32", "p4ndenc128v32")]
      [] data_type = DATA_TYPE_INT64_ARRAY ->
            [error |-> ERROR_OK, encoder |-> Stages(e, "delta2d_encode64", "p4nzenc64")]
      [] data_type = DATA_TYPE_UINT64_ARRAY ->
            [error |-> ERROR_OK, encoder |-> Stages(e, "delta2d_encode64", "p4ndenc64")]
      [] data_type = DATA_TYPE_FLOAT_ARRAY ->
            [error |-> ERROR_OK,
             encoder |-> Stages(WithCopy(e, "om_common_copy_float_to_int32"),
                                "delta2d_encode32", "p4nzenc128v32")]
      [] data_type = DATA_TYPE_DOUBLE_ARRAY ->
            [error |-> ERROR_OK,
             encoder |-> Stages(WithCopy(e, "om_common_copy_double_to_int64"),
                                "delta2d_encode64", "p4nzenc64")]
      [] OTHER -> [error |-> ERROR_INVALID_DATA_TYPE, encoder |-> e]

\* a variant of InitCompressionSwitch that takes every compression for
\* COMPRESSION_PFOR_DELTA2D
InitCompressionSwitchLenient(e, compression, data_type) ==
    InitPforDelta2d(e, data_type)

\* switch (compression)
InitCompressionSwitch(e, compression, data_type) ==
    CASE compression = COMPRESSION_PFOR_DELTA2D_INT16 ->
            IF data_type # DATA_TYPE_FLOAT_ARRAY
            THEN [error |-> ERROR_INVALID_DATA_TYPE, encoder |-> e]
            ELSE [error |-> ERROR_OK,
                  encoder |-> Stages(WithCopy(Sized(e, 4, 2), "om_common_copy_float_to_int16"),
                                     "delta2d_encode16", "p4nzenc128v16")]
      [] compression = COMPRESSION_FPX_XOR2D -> InitFpxXor2d(e, data_type)
      [] compression = COMPRESSION_PFOR_DELTA2D -> InitPforDelta2d(e, data_type)
      [] compression = COMPRESSION_PFOR_DELTA2D_INT16_LOGARITHMIC ->
            IF data_type # DATA_TYPE_FLOAT_ARRAY
            THEN [error |-> ERROR_INVALID_DATA_TYPE, encoder |-> e]
            ELSE [error |-> ERROR_OK,
                  encoder |-> Stages(WithCopy(Sized(e, 4, 2), "om_common_copy_float_to_int16_log10"),
                                     "delta2d_encode16", "p4nzenc128v16")]
      [] OTHER -> [error |-> ERROR_INVALID_COMPRESSION_TYPE, encoder |-> e]

\* om_encoder_init(encoder, scale_factor, add_offset, compression, data_type,
\*                 dimensions, chunks, dimension_count)
OmEncoderInit(e, scale_factor, add_offset, compression, data_type, dimensions, chunks, dimension_count) ==
    LET stored == [e EXCEPT !.scale_factor = scale_factor,
                            !.add_offset = add_offset,
                            !.dimensions = dimensions,
                            !.chunks = chunks,
                            !.dimension_count = dimension_count]
        typed  == InitDataTypeSwitch(stored, data_type)
    IN  IF typed.error # ERROR_OK THEN typed
        ELSE InitCompressionSwitch(typed.encoder, compression, data_type)

(***************************************************************************)
(* om_common.c: om_get_element_size.                                       *)
(***************************************************************************)

\* switch (data_type): element sizes based on data type
SizeDataTypeSwitch(size, data_type) ==
    CASE data_type \in {DATA_TYPE_INT8_ARRAY, DATA_TYPE_UINT8_ARRAY} ->
            [error |-> ERROR_OK, size |-> Sized(size, 1, 1)]
      [] data_type \in {DATA_TYPE_INT16_ARRAY, DATA_TYPE_UINT16_ARRAY} ->
            [error |-> ERROR_OK, size |-> Sized(size, 2, 2)]
      [] data_type \in {DATA_TYPE_INT32_ARRAY, DATA_TYPE_UINT32_ARRAY,
                        DATA_TYPE_FLOAT_ARRAY} ->
            [error |-> ERROR_OK, size |-> Sized(size, 4, 4)]
      [] data_type \in {DATA_TYPE_INT64_ARRAY, DATA_TYPE_UINT64_ARRAY,
                        DATA_TYPE_DOUBLE_ARRAY} ->
            [error |-> ERROR_OK, size |-> Sized(size, 8, 8)]
      [] OTHER -> [error |-> ERROR_INVALID_DATA_TYPE, size |-> size]

\* switch (compression): compressed size based on compression type
SizeCompressionSwitch(size, compression, data_type) ==
    CASE compression \in {COMPRESSION_PFOR_DELTA2D_INT16,
                          COMPRESSION_PFOR_DELTA2D_INT16_LOGARITHMIC} ->
            IF data_type # DATA_TYPE_FLOAT_ARRAY
            THEN [error |-> ERROR_INVALID_DATA_TYPE, size |-> size]
            ELSE [error |-> ERROR_OK, size |-> Sized(size, 4, 2)]
      [] compression \in {COMPRESSION_FPX_XOR2D, COMPRESSION_PFOR_DELTA2D} ->
            [error |-> ERROR_OK, size |-> size]
      [] OTHER -> [error |-> ERROR_INVALID_COMPRESSION_TYPE, size |-> size]

\* om_get_element_size(data_type, compression, size)
OmGetElementSize(data_type, compression, size) ==
    LET typed == SizeDataTypeSwitch(size, data_type)
    IN  IF typed.error # ERROR_OK THEN typed
        ELSE SizeCompressionSwitch(typed.size, compression, data_type)

(***************************************************************************)
(* om_common.c: the copy stage.                                            *)
(*                                                                         *)
(* A float or double value is NaN or a rational num/den (den > 0).  The    *)
(* values the model feeds to the quantisers are dyadic rationals of a few  *)
(* bits and the scale factors are powers of two, so that every float       *)
(* operation of the code below is exact and the rational result is the     *)
(* float result.                                                           *)
(***************************************************************************)

INT16_MAX == 32767
INT16_MIN == -32768
INT32_MAX == 2147483647
INT32_MIN == (-INT32_MAX) - 1

NaN == [nan |-> TRUE, num |-> 0, den |-> 1]
Rational(n, d) == [nan |-> FALSE, num |-> n, den |-> d]

\* val * scale_factor + add_offset
ScaleAndOffset(val, scale_factor, add_offset) ==
    Rational((val.num * scale_factor.num * add_offset.den)
                + (add_offset.num * val.den * scale_factor.den),
             val.den * scale_factor.den * add_offset.den)

\* (float)val / scale_factor - add_offset
UnscaleAndOffset(val, scale_factor, add_offset) ==
    Rational((val * scale_factor.den * add_offset.den)
                - (add_offset.num * scale_factor.num),
             scale_factor.num * add_offset.den)

\* roundf, round: to the nearest integer, halfway cases away from zero
RoundHalfAway(r) ==
    IF r.num >= 0
    THEN ((2 * r.num) + r.den) \div (2 * r.den)
    ELSE -(((2 * (-r.num)) + r.den) \div (2 * r.den))

\* fmaxf(lo, fminf(hi, v))
Clamp(v, lo, hi) == IF v > hi THEN hi ELSE IF v < lo THEN lo ELSE v

\* the element om_common_copy_float_to_int16 stores for the float val
FloatToInt16(val, scale_factor, add_offset) ==
    IF val.nan THEN INT16_MAX
    ELSE Clamp(RoundHalfAway(ScaleAndOffset(val, scale_factor, add_offset)),
               INT16_MIN, INT16_MAX)

\* the element om_common_copy_int16_to_float stores for the int16_t val
Int16ToFloat(val, scale_factor, add_offset) ==
    IF val = INT16_MAX THEN NaN
    ELSE UnscaleAndOffset(val, scale_factor, add_offset)

\* the element om_common_copy_float_to_int32 stores for the float val.
\* (float)INT32_MAX is 2^31; the clamp only acts on |scaled| >= 2^31, which
\* no value of the model reaches.
FloatToInt32(val, scale_factor, add_offset) ==
    IF val.nan THEN INT32_MAX
    ELSE Clamp(RoundHalfAway(ScaleAndOffset(val, scale_factor, add_offset)),
               INT32_MIN, INT32_MAX)

\* the int64_t om_common_copy_double_to_int64 stores for the double val, as
\* an 8-byte word.  INT64_MAX is 0x7FFFFFFFFFFFFFFF; the clamp only acts on
\* |scaled| >= 2^63, which no value of the model reaches.
DoubleToInt64Word(val, scale_factor, add_offset) ==
    IF val.nan THEN <<255, 255, 255, 255, 255, 255, 255, 127>>
    ELSE IntWord(RoundHalfAway(ScaleAndOffset(val, scale_factor, add_offset)), 8)

\* log10f(1 + val) for the values of the model: exact where 1 + val is a
\* power of ten, NaN for a negative argument
Log10OnePlus(val) ==
    LET arg == Rational(val.num + val.den, val.den)
    IN  CASE arg.num < 0 -> NaN
          [] arg.num = arg.den -> Rational(0, 1)
          [] arg.num = 10 * arg.den -> Rational(1, 1)
          [] arg.num = 100 * arg.den -> Rational(2, 1)

\* the element om_common_copy_float_to_int16_log10 stores for the float val:
\* roundf(log10f(1 + val) * scale_factor), clamped; add_offset is not used.
\* A NaN logarithm stays NaN through roundf, fminf(INT16_MAX, NaN) is
\* INT16_MAX.
FloatToInt16Log10(val, scale_factor, add_offset) ==
    IF val.nan THEN INT16_MAX
    ELSE LET lg == Log10OnePlus(val)
         IN  IF lg.nan THEN INT16_MAX
             ELSE Clamp(RoundHalfAway(ScaleAndOffset(lg, scale_factor, Rational(0, 1))),
                        INT16_MIN, INT16_MAX)

\* The floats and doubles of the source arrays of the model: value and
\* IEEE 754 bit pattern, little-endian (0.0, 9.0, 99.0, NaN, -2.5).
FloatTable ==
    << [bits |-> <<0, 0, 0, 0>>,     value |-> Rational(0, 1)],
       [bits |-> <<0, 0, 16, 65>>,   value |-> Rational(9, 1)],
       [bits |-> <<0, 0, 198, 66>>,  value |-> Rational(99, 1)],
       [bits |-> <<0, 0, 192, 127>>, value |-> NaN],
       [bits |-> <<0, 0, 32, 192>>,  value |-> Rational(-5, 2)] >>

DoubleTable ==
    << [bits |-> <<0, 0, 0, 0, 0, 0, 0, 0>>,     value |-> Rational(0, 1)],
       [bits |-> <<0, 0, 0, 0, 0, 0, 34, 64>>,   value |-> Rational(9, 1)],
       [bits |-> <<0, 0, 0, 0, 0, 192, 88, 64>>, value |-> Rational(99, 1)],
       [bits |-> <<0, 0, 0, 0, 0, 0, 248, 127>>, value |-> NaN],
       [bits |-> <<0, 0, 0, 0, 0, 0, 4, 192>>,   value |-> Rational(-5, 2)] >>

\* the value of the float or double stored as bits: ((float *)src)[i]
FloatOfBits(bits) ==
    (CHOOSE entry \in {FloatTable[k] : k \in 1..Len(FloatTable)} : entry.bits = bits).value
DoubleOfBits(bits) ==
    (CHOOSE entry \in {DoubleTable[k] : k \in 1..Len(DoubleTable)} : entry.bits = bits).value

CopyCallbacks ==
    {"om_common_copy8", "om_common_copy16", "om_common_copy32", "om_common_copy64",
     "om_common_copy_float_to_int16", "om_common_copy_float_to_int32",
     "om_common_copy_double_to_int64", "om_common_copy_float_to_int16_log10"}

\* sizeof the element type a copy callback reads from src and writes to dst
CopyReadBytes(cb) ==
    CASE cb = "om_common_copy8" -> 1
      [] cb = "om_common_copy16" -> 2
      [] cb = "om_common_copy32" -> 4
      [] cb = "om_common_copy64" -> 8
      [] cb = "om_common_copy_float_to_int16" -> 4
      [] cb = "om_common_copy_float_to_int32" -> 4
      [] cb = "om_common_copy_double_to_int64" -> 8
      [] cb = "om_common_copy_float_to_int16_log10" -> 4

CopyWriteBytes(cb) ==
    CASE cb = "om_common_copy8" -> 1
      [] cb = "om_common_copy16" -> 2
      [] cb = "om_common_copy32" -> 4
      [] cb = "om_common_copy64" -> 8
      [] cb = "om_common_copy_float_to_int16" -> 2
      [] cb = "om_common_copy_float_to_int32" -> 4
      [] cb = "om_common_copy_double_to_int64" -> 8
      [] cb = "om_common_copy_float_to_int16_log10" -> 2

\* the bytes a copy callback stores in dst[i] for the bytes of src[i]
CopyElement(cb, scale_factor, add_offset, bytes) ==
    CASE cb \in {"om_common_copy8", "om_common_copy16",
                 "om_common_copy32", "om_common_copy64"} -> bytes
      [] cb = "om_common_copy_float_to_int16" ->
            IntWord(FloatToInt16(FloatOfBits(bytes), scale_factor, add_offset), 2)
      [] cb = "om_common_copy_float_to_int32" ->
            IntWord(FloatToInt32(FloatOfBits(bytes), scale_factor, add_offset), 4)
      [] cb = "om_common_copy_double_to_int64" ->
            DoubleToInt64Word(DoubleOfBits(bytes), scale_factor, add_offset)
      [] cb = "om_common_copy_float_to_int16_log10" ->
            IntWord(FloatToInt16Log10(FloatOfBits(bytes), scale_factor, add_offset), 2)

RECURSIVE CopyFrom(_, _, _, _, _, _, _, _)
\* the loop of a copy callback: for (i = 0; i < length; ++i) dst[i] = f(src[i]),
\* with src and dst given as byte offsets into the buffers source and target
CopyFrom(cb, length, scale_factor, add_offset, source, src, target, dst) ==
    IF length = 0 THEN target
    ELSE CopyFrom(cb, length - 1, scale_factor, add_offset,
                  source, src + CopyReadBytes(cb),
                  WriteBytes(target, dst,
                             CopyElement(cb, scale_factor, add_offset,
                                         SubSeq(source, src + 1, src + CopyReadBytes(cb)))),
                  dst + CopyWriteBytes(cb))

\* (*compress_copy_callback)(length, scale_factor, add_offset, &source[src], &target[dst])
CopyCallback(cb, length, scale_factor, add_offset, source, src, target, dst) ==
    CopyFrom(cb, length, scale_factor, add_offset, source, src, target, dst)

(***************************************************************************)
(* The state.                                                              *)
(***************************************************************************)

VARIABLES
    pc,                 \* where the modelled call stands
    \* the arguments of om_encoder_init and om_get_element_size
    scale_factor, add_offset, compression, data_type,
    dimensions, chunks, dimension_count,
    encoder,            \* the OmEncoder_t
    initError,          \* what om_encoder_init returned
    size, sizeError,    \* the OmElementSize_t and what om_get_element_size returned
    \* the arguments of om_encoder_compress_chunk (the source array is the
    \* state function array below)
    arrayDimensions, arrayOffset, arrayCount,
    chunkIndex, chunkIndexOffsetInThisArray,
    chunkBuffer,        \* the scratch buffer (also the buffer of the delta2d calls)
    chunkBuffer2,       \* the scratch of the same call made with other left-over contents
    \* the locals of om_encoder_compress_chunk
    arrayTotalCount, rollingMultiplyTargetCube, readCoordinate, writeCoordinate,
    linearReadCount, linearRead, lengthLast, lengthInChunk, i_forward,
    handed, handed2,    \* the bytes the compress callback was given (of chunkBuffer, chunkBuffer2)
    copied,             \* the (length, read element, write element) of every copy callback call
    \* a delta2d call: the function, its length0 and length1 (the buffer is
    \* chunkBuffer), its loop index, and the buffer before the call
    filter, filterLength0, filterLength1, d0, original,
    \* the Int16 round trip: the float, the int16_t stored for it, the float
    \* read back
    val, quantised, restored,
    \* the look-up table calls: the table, the output buffer and its size,
    \* the locals of om_encoder_compress_lut and what it returned
    lookUpTable, lookUpTableCount, out, compressed_lut_buffer_size,
    lutChunkLength, lutI, lutSize

encoderVars == <<scale_factor, add_offset, compression, data_type,
                 dimensions, chunks, dimension_count, encoder, initError,
                 size, sizeError>>
regionVars == <<arrayDimensions, arrayOffset, arrayCount,
                chunkIndex, chunkIndexOffsetInThisArray>>
localVars == <<arrayTotalCount, rollingMultiplyTargetCube, readCoordinate,
               writeCoordinate, linearReadCount, linearRead, lengthLast,
               lengthInChunk, i_forward>>
chunkVars == <<regionVars, chunkBuffer2, localVars, handed, handed2, copied>>

deltaVars == <<filter, filterLength0, filterLength1, d0, original>>
quantVars == <<val, quantised, restored>>
lutVars == <<lookUpTable, lookUpTableCount, out, compressed_lut_buffer_size,
             lutChunkLength, lutI, lutSize>>

vars == <<pc, encoderVars, chunkBuffer, chunkVars, deltaVars, quantVars, lutVars>>

(***************************************************************************)
(* om_encoder.c: om_encoder_compress_chunk.                                *)
(***************************************************************************)

\* the macros min and divide_rounded_up of om_common.h
Min(a, b) == IF a < b THEN a ELSE b
DivideRoundedUp(dividend, divisor) == (dividend + divisor - 1) \div divisor

RECURSIVE Product(_)
Product(seq) == IF seq = <<>> THEN 1 ELSE Head(seq) * Product(Tail(seq))

\* The source array: arrayDimensions elements of bytes_per_element bytes.
\* Element e of an integer array has e + 1 in its lowest byte; a float or
\* double array cycles through the table of the model.
SourceElement(type, bytes, e) ==
    CASE type = DATA_TYPE_FLOAT_ARRAY -> FloatTable[(e % Len(FloatTable)) + 1].bits
      [] type = DATA_TYPE_DOUBLE_ARRAY -> DoubleTable[(e % Len(DoubleTable)) + 1].bits
      [] OTHER -> [j \in 1..bytes |->
                     IF j = 1 THEN (e + 1) % 256 ELSE ((17 * (e + 1)) + (29 * j)) % 256]

array ==
    LET bytes == encoder.bytes_per_element
    IN  [k \in 1..(Product(arrayDimensions) * bytes) |->
            SourceElement(data_type, bytes, (k - 1) \div bytes)[((k - 1) % bytes) + 1]]

\* the locals before the first loop (lines 232-244)
SetupStart ==
    [rollingMultiply |-> 1, rollingMultiplyChunkLength |-> 1,
     rollingMultiplyTargetCube |-> 1, readCoordinate |-> 0,
     linearReadCount |-> 1, linearRead |-> TRUE, lengthLast |-> 0,
     asserted |-> TRUE]

\* a variant of FullAxis that looks at arrayCount alone
FullAxisByCount(i, length0) == arrayCount[i + 1] = length0

\* whether axis i is one the linear run extends across
\* (arrayCount[i] == length0 && arrayDimensions[i] == length0)
FullAxis(i, length0) == arrayCount[i + 1] = length0 /\ arrayDimensions[i + 1] = length0

\* one iteration of the first loop (lines 246-277), for i_forward = fwd.  The
\* inputs of the model are far below 2^32, so that nothing wraps here and
\* the locals are computed as natural numbers; asserted records whether
\* both assertions held so far.
SetupAxis(st, fwd) ==
    LET i         == encoder.dimension_count - fwd - 1
        dimension == encoder.dimensions[i + 1]
        chunk     == encoder.chunks[i + 1]
        nChunksInThisDimension == DivideRoundedUp(dimension, chunk)
        c0        == (chunkIndex \div st.rollingMultiply) % nChunksInThisDimension
        c0Offset  == (chunkIndexOffsetInThisArray \div st.rollingMultiply)
                        % nChunksInThisDimension
        length0   == Min((c0 + 1) * chunk, dimension) - (c0 * chunk)
        innermostPartial == i = encoder.dimension_count - 1 /\ ~FullAxis(i, length0)
        count1    == IF innermostPartial THEN length0 ELSE st.linearReadCount
        linear1   == IF innermostPartial THEN FALSE ELSE st.linearRead
        extends   == linear1 /\ FullAxis(i, length0)
    IN  [rollingMultiply |-> st.rollingMultiply * nChunksInThisDimension,
         rollingMultiplyChunkLength |-> st.rollingMultiplyChunkLength * length0,
         rollingMultiplyTargetCube |-> st.rollingMultiplyTargetCube * arrayDimensions[i + 1],
         readCoordinate |-> st.readCoordinate
             + (st.rollingMultiplyTargetCube * ((c0Offset * chunk) + arrayOffset[i + 1])),
         linearReadCount |-> IF extends THEN count1 * length0 ELSE count1,
         linearRead |-> extends,
         lengthLast |-> IF i = encoder.dimension_count - 1 THEN length0 ELSE st.lengthLast,
         asserted |-> st.asserted /\ length0 <= arrayCount[i + 1]
                                  /\ length0 <= arrayDimensions[i + 1]]

RECURSIVE SetupFrom(_, _)
\* the first loop from i_forward = fwd on
SetupFrom(st, fwd) ==
    IF fwd < encoder.dimension_count THEN SetupFrom(SetupAxis(st, fwd), fwd + 1) ELSE st

\* The call up to the main loop (lines 230-279).  A failed assertion aborts
\* the process, unless the build defines NDEBUG and the call goes on.
CompressChunkEnter ==
    /\ pc = "configured"
    /\ LET st == SetupFrom(SetupStart, 0)
       IN  /\ arrayTotalCount' = Product(arrayDimensions)
           /\ rollingMultiplyTargetCube' = st.rollingMultiplyTargetCube
           /\ readCoordinate' = U64(st.readCoordinate)
           /\ writeCoordinate' = U64(0)
           /\ linearReadCount' = U64(st.linearReadCount)
           /\ linearRead' = st.linearRead
           /\ lengthLast' = st.lengthLast
           /\ lengthInChunk' = st.rollingMultiplyChunkLength
           /\ pc' \in IF st.asserted THEN {"loop"} ELSE {"loop", "abort"}
    /\ UNCHANGED <<encoderVars, regionVars, chunkBuffer, chunkBuffer2, i_forward,
                   handed, handed2, copied>>


\* the two assertions at the top of the main loop (lines 282-283), as the
\* code computes them: the sums are uint64_t sums
LoopAssertionsHold ==
    /\ WLeq(WAdd(readCoordinate, linearReadCount), U64(arrayTotalCount))
    /\ WLeq(WAdd(writeCoordinate, linearReadCount), U64(lengthInChunk))

\* om_encoder_chunk_buffer_size: the elements the caller's chunkBuffer holds
ChunkBufferElements == Product(encoder.chunks)

\* whether the elements count elements from element first on lie inside a
\* buffer of total elements
InsideBuffer(first, count, total) ==
    /\ WLeq(first, U64(total))
    /\ WLeq(count, WSub(U64(total), first))

\* whether the copy callback call of this iteration stays inside the source
\* array and inside the chunk buffer
CopyInBounds ==
    /\ InsideBuffer(readCoordinate, linearReadCount, arrayTotalCount)
    /\ InsideBuffer(writeCoordinate, linearReadCount, ChunkBufferElements)

\* the copy callback call of this iteration (lines 284-290) on scratch
CopiedInto(scratch) ==
    CopyCallback(encoder.compress_copy_callback, NatOf(linearReadCount),
                 encoder.scale_factor, encoder.add_offset,
                 array, encoder.bytes_per_element * NatOf(readCoordinate),
                 scratch, encoder.bytes_per_element_compressed * NatOf(writeCoordinate))

\* readCoordinate += linearReadCount - 1 (line 292)
AdvanceRead(rc, count) == WAdd(rc, WSub(count, U64(1)))

\* writeCoordinate += linearReadCount - 1; writeCoordinate += 1 (lines 293-294)
AdvanceWrite(wc, count) == WAdd(WAdd(wc, WSub(count, U64(1))), U64(1))

\* The top of the main loop up to the odometer (lines 282-298).  A failed
\* assertion aborts the process, unless the build defines NDEBUG and the
\* call goes on; a callback call that leaves the source array or the chunk
\* buffer is undefined behaviour.
CopyStep ==
    /\ pc = "loop"
    /\ Len(copied) < MaxCopyCalls
    /\ pc' \in (IF LoopAssertionsHold THEN {} ELSE {"abort"})
                 \cup {IF CopyInBounds THEN "odometer" ELSE "undefined"}
    /\ IF pc' # "odometer"
       THEN UNCHANGED <<chunkBuffer, chunkBuffer2, localVars, copied>>
       ELSE /\ chunkBuffer' = CopiedInto(chunkBuffer)
            /\ chunkBuffer2' = CopiedInto(chunkBuffer2)
            /\ copied' = Append(copied, [length |-> NatOf(linearReadCount),
                                         read |-> NatOf(readCoordinate),
                                         write |-> NatOf(writeCoordinate)])
            /\ readCoordinate' = AdvanceRead(readCoordinate, linearReadCount)
            /\ writeCoordinate' = AdvanceWrite(writeCoordinate, linearReadCount)
            /\ rollingMultiplyTargetCube' = 1
            /\ linearRead' = TRUE
            /\ linearReadCount' = U64(1)
            /\ i_forward' = 0
            /\ UNCHANGED <<arrayTotalCount, lengthLast, lengthInChunk>>
    /\ UNCHANGED <<encoderVars, regionVars, handed, handed2>>

\* the axis the odometer loop is at: i = dimension_count - i_forward - 1
OdometerAxis == encoder.dimension_count - i_forward - 1

\* ((readCoordinate / rollingMultiplyTargetCube) % arrayDimensions[i] - arrayOffset[i]),
\* a uint64_t difference, for the read coordinate rc
AxisPosition(rc, i) ==
    WSub(U64(WModSmall(WDivSmall(rc, rollingMultiplyTargetCube), arrayDimensions[i + 1])),
         U64(arrayOffset[i + 1]))

\* qPos and, from it, length0 (lines 304-305)
OdometerQPos(i) == WDivSmall(AxisPosition(readCoordinate, i), encoder.chunks[i + 1])
OdometerLength0(i) ==
    LET chunk == encoder.chunks[i + 1]
        qPos  == OdometerQPos(i)
    IN  WSub(WMin(WMulSmall(WAdd(qPos, U64(1)), chunk), U64(arrayCount[i + 1])),
             WMulSmall(qPos, chunk))

\* q0 (line 317), read after readCoordinate += rollingMultiplyTargetCube
OdometerQ0(i) ==
    WModSmall(AxisPosition(WAdd(readCoordinate, U64(rollingMultiplyTargetCube)), i),
              encoder.chunks[i + 1])

\* the test that ends the odometer loop (line 318): no wrap on this axis
OdometerBreaks(q0, length0) == q0 # 0 /\ U64(q0) # length0

\* One iteration of the odometer loop (lines 300-328) up to its break, its
\* next iteration, or the end of the gather on the outermost axis.
OdometerStep ==
    /\ pc = "odometer"
    /\ LET i       == OdometerAxis
           length0 == OdometerLength0(i)
           full    == U64(arrayCount[i + 1]) = length0 /\ U64(arrayDimensions[i + 1]) = length0
           innermostPartial == i = encoder.dimension_count - 1 /\ ~full
           count1  == IF innermostPartial THEN length0 ELSE linearReadCount
           linear1 == IF innermostPartial THEN FALSE ELSE linearRead
           extends == linear1 /\ full
           q0      == OdometerQ0(i)
           stepped == WAdd(readCoordinate, U64(rollingMultiplyTargetCube))
       IN  /\ linearReadCount' = IF extends THEN WMulSmall(count1, NatOf(length0)) ELSE count1
           /\ linearRead' = extends
           /\ IF OdometerBreaks(q0, length0)
              THEN /\ readCoordinate' = stepped
                   /\ pc' = "loop"
                   /\ UNCHANGED <<rollingMultiplyTargetCube, i_forward>>
              ELSE /\ readCoordinate' = WSub(stepped, WMulSmall(length0, rollingMultiplyTargetCube))
                   /\ rollingMultiplyTargetCube' = rollingMultiplyTargetCube * arrayDimensions[i + 1]
                   /\ IF i = 0
                      THEN pc' = "predict" /\ UNCHANGED i_forward
                      ELSE pc' = "odometer" /\ i_forward' = i_forward + 1
    /\ UNCHANGED <<encoderVars, regionVars, chunkBuffer, chunkBuffer2, arrayTotalCount,
                   writeCoordinate, lengthLast, lengthInChunk, handed, handed2, copied>>

\* the bytes of scratch the compress callback reads: lengthInChunk elements
HandedBytes(scratch) ==
    SubSeq(scratch, 1, lengthInChunk * encoder.bytes_per_element_compressed)

\* the filter callback call (line 325) on scratch
Filtered(scratch) ==
    Delta2dEncode(encoder.compress_filter_callback,
                  lengthInChunk \div lengthLast, lengthLast, scratch)

\* Predict and encode (lines 325-326): the filter runs in place, the compress
\* callback is given the chunk buffer and lengthInChunk.
PredictEncode ==
    /\ pc = "predict"
    /\ chunkBuffer' = Filtered(chunkBuffer)
    /\ chunkBuffer2' = Filtered(chunkBuffer2)
    /\ handed' = HandedBytes(chunkBuffer')
    /\ handed2' = HandedBytes(chunkBuffer2')
    /\ pc' = "returned"
    /\ UNCHANGED <<encoderVars, regionVars, localVars, copied>>

(***************************************************************************)
(* The calls that configure the codec.                                     *)
(***************************************************************************)

\* om_get_element_size(data_type, compression, &size)
GetElementSizeCall ==
    /\ pc = "start"
    /\ LET r == OmGetElementSize(data_type, compression, size)
       IN  size' = r.size /\ sizeError' = r.error
    /\ pc' = "sized"
    /\ UNCHANGED <<scale_factor, add_offset, compression, data_type, dimensions,
                   chunks, dimension_count, encoder, initError, chunkBuffer, chunkVars>>

\* om_encoder_init(&encoder, ...); on ERROR_OK the caller allocates the
\* chunk buffers (om_encoder_chunk_buffer_size bytes) with whatever they
\* held before
EncoderInitCall ==
    /\ pc = "sized"
    /\ LET r == OmEncoderInit(encoder, scale_factor, add_offset, compression,
                              data_type, dimensions, chunks, dimension_count)
           bytes == Product(chunks) * r.encoder.bytes_per_element_compressed
       IN  /\ encoder' = r.encoder
           /\ initError' = r.error
           /\ pc' = IF r.error = ERROR_OK THEN "configured" ELSE "rejected"
           /\ chunkBuffer' = IF r.error = ERROR_OK
                             THEN [k \in 1..bytes |-> chunkBuffer[1]] ELSE chunkBuffer
           /\ chunkBuffer2' = IF r.error = ERROR_OK
                              THEN [k \in 1..bytes |-> chunkBuffer2[1]] ELSE chunkBuffer2
    /\ UNCHANGED <<scale_factor, add_offset, compression, data_type, dimensions,
                   chunks, dimension_count, size, sizeError, regionVars, localVars,
                   handed, handed2, copied>>

NextChunk ==
    /\ \/ GetElementSizeCall
       \/ EncoderInitCall
       \/ CompressChunkEnter
       \/ CopyStep
       \/ OdometerStep
       \/ PredictEncode
    /\ UNCHANGED <<deltaVars, quantVars, lutVars>>

(***************************************************************************)
(* delta2d.c, one iteration of the outer loop at a time: an encoder runs   *)
(* on chunkBuffer, then the decoder of the same name runs on the result.   *)
(***************************************************************************)

\* delta2d_encode*: the early return or the start of the outer loop
Delta2dEncodeEnter ==
    /\ pc = "unfiltered"
    /\ IF EarlyReturn(filterLength0)
       THEN pc' = "encoded" /\ UNCHANGED d0
       ELSE pc' = "encode_loop" /\ d0' = EncodeFirstRow(filterLength0)
    /\ UNCHANGED <<chunkBuffer, filter, filterLength0, filterLength1, original>>

\* delta2d_encode*: the loop test and one iteration of the outer loop
Delta2dEncodeRow ==
    /\ pc = "encode_loop"
    /\ IF EncodeLoopCondition(d0)
       THEN /\ chunkBuffer' = EncodeRow(filter, chunkBuffer, filterLength1, d0)
            /\ d0' = EncodeNextRow(d0)
            /\ UNCHANGED pc
       ELSE /\ pc' = "encoded"
            /\ UNCHANGED <<chunkBuffer, d0>>
    /\ UNCHANGED <<filter, filterLength0, filterLength1, original>>

\* delta2d_decode*: the early return or the start of the outer loop
Delta2dDecodeEnter ==
    /\ pc = "encoded"
    /\ IF EarlyReturn(filterLength0)
       THEN pc' = "decoded" /\ UNCHANGED d0
       ELSE pc' = "decode_loop" /\ d0' = DecodeFirstRow
    /\ UNCHANGED <<chunkBuffer, filter, filterLength0, filterLength1, original>>

\* delta2d_decode*: the loop test and one iteration of the outer loop
Delta2dDecodeRow ==
    /\ pc = "decode_loop"
    /\ IF DecodeLoopCondition(d0, filterLength0)
       THEN /\ chunkBuffer' = DecodeRow(filter, chunkBuffer, filterLength1, d0)
            /\ d0' = DecodeNextRow(d0)
            /\ UNCHANGED pc
       ELSE /\ pc' = "decoded"
            /\ UNCHANGED <<chunkBuffer, d0>>
    /\ UNCHANGED <<filter, filterLength0, filterLength1, original>>

NextDelta ==
    /\ \/ Delta2dEncodeEnter
       \/ Delta2dEncodeRow
       \/ Delta2dDecodeEnter
       \/ Delta2dDecodeRow
    /\ UNCHANGED <<encoderVars, chunkVars, quantVars, lutVars>>

(***************************************************************************)
(* om_common.c: one float through om_common_copy_float_to_int16 and back   *)
(* through om_common_copy_int16_to_float, with the same scale_factor and   *)
(* add_offset.                                                             *)
(***************************************************************************)

\* om_common_copy_float_to_int16(1, scale_factor, add_offset, &val, &quantised)
CopyFloatToInt16Call ==
    /\ pc = "float"
    /\ quantised' = FloatToInt16(val, scale_factor, add_offset)
    /\ pc' = "int16"
    /\ UNCHANGED <<val, restored>>

\* om_common_copy_int16_to_float(1, scale_factor, add_offset, &quantised, &restored)
CopyInt16ToFloatCall ==
    /\ pc = "int16"
    /\ restored' = Int16ToFloat(quantised, scale_factor, add_offset)
    /\ pc' = "float_again"
    /\ UNCHANGED <<val, quantised>>

NextQuant ==
    /\ \/ CopyFloatToInt16Call
       \/ CopyInt16ToFloatCall
    /\ UNCHANGED <<encoderVars, chunkBuffer, chunkVars, deltaVars, lutVars>>

(***************************************************************************)
(* om_encoder.c: om_encoder_lut_buffer_size and om_encoder_compress_lut.   *)
(*                                                                         *)
(* p4ndenc64 is outside the repository.  The model knows of a range of the *)
(* table only what the encoder makes of it: lookUpTable[b] is the byte     *)
(* length p4ndenc64 returns for the b-th range of LUT_CHUNK_COUNT entries, *)
(* the same whenever it is called on that range.  The bytes it writes are  *)
(* b in every byte; it may write up to 32 more 64-bit integers after them  *)
(* (the comment of line 198).                                              *)
(***************************************************************************)

LUT_CHUNK_COUNT == 256

\* 32 * sizeof(uint64_t)
LutSlack == 32 * 8

\* n bytes of what p4ndenc64 writes past its result
Spilled(n) == [k \in 1..n |-> 170]

\* the ranges of the table: divide_rounded_up(lookUpTableCount, LUT_CHUNK_COUNT)
LutChunks(count) == DivideRoundedUp(count, LUT_CHUNK_COUNT)

\* p4ndenc64(&lookUpTable[rangeStart], rangeEnd - rangeStart, ...): the
\* length it returns and the bytes it writes for that length
P4ndenc64(table, rangeStart, n) == table[(rangeStart \div LUT_CHUNK_COUNT) + 1]
P4ndenc64Bytes(table, rangeStart, n) ==
    [k \in 1..P4ndenc64(table, rangeStart, n) |-> (rangeStart \div LUT_CHUNK_COUNT) + 1]

\* a variant of KeepMax that keeps the length of the last range
KeepLast(len, maxLength) == len

\* if (len > maxLength) maxLength = len (line 196)
KeepMax(len, maxLength) == IF len > maxLength THEN len ELSE maxLength

RECURSIVE LutMaxLengthFrom(_, _, _, _)
\* the loop of om_encoder_lut_buffer_size from i on (lines 192-197)
LutMaxLengthFrom(table, count, i, maxLength) ==
    IF i < LutChunks(count)
    THEN LET rangeStart == i * LUT_CHUNK_COUNT
             rangeEnd   == Min(rangeStart + LUT_CHUNK_COUNT, count)
             len        == P4ndenc64(table, rangeStart, rangeEnd - rangeStart)
         IN  LutMaxLengthFrom(table, count, i + 1, KeepMax(len, maxLength))
    ELSE maxLength

\* om_encoder_lut_buffer_size(lookUpTable, lookUpTableCount)
OmEncoderLutBufferSize(table, count) ==
    (LutMaxLengthFrom(table, count, 0, 0) * LutChunks(count)) + LutSlack

\* om_encoder_lut_buffer_size; the caller then allocates out, a buffer of
\* that size with whatever it held before
LutBufferSizeCall ==
    /\ pc = "table"
    /\ compressed_lut_buffer_size' = OmEncoderLutBufferSize(lookUpTable, lookUpTableCount)
    /\ out' = [k \in 1..compressed_lut_buffer_size' |-> out[1]]
    /\ pc' = "lut_sized"
    /\ UNCHANGED <<lookUpTable, lookUpTableCount, lutChunkLength, lutI, lutSize>>

\* om_encoder_compress_lut up to its loop (lines 203-205)
CompressLutEnter ==
    /\ pc = "lut_sized"
    /\ lutSize' = compressed_lut_buffer_size - LutSlack
    /\ lutChunkLength' = lutSize' \div LutChunks(lookUpTableCount)
    /\ lutI' = 0
    /\ pc' = "lut_loop"
    /\ UNCHANGED <<lookUpTable, lookUpTableCount, out, compressed_lut_buffer_size>>

RECURSIVE ZeroFillFrom(_, _, _)
\* for (j = from; j < to; j++) out[j] = 0 (lines 211-213)
ZeroFillFrom(buf, j, to) ==
    IF j < to THEN ZeroFillFrom(WriteBytes(buf, j, <<0>>), j + 1, to) ELSE buf

\* One iteration of the loop of om_encoder_compress_lut (lines 207-214), or
\* its return (line 215).  A write past the end of out is undefined
\* behaviour.
CompressLutChunk ==
    /\ pc = "lut_loop"
    /\ IF lutI < LutChunks(lookUpTableCount)
       THEN LET rangeStart == lutI * LUT_CHUNK_COUNT
                rangeEnd   == Min(rangeStart + LUT_CHUNK_COUNT, lookUpTableCount)
                len        == P4ndenc64(lookUpTable, rangeStart, rangeEnd - rangeStart)
                bytes      == P4ndenc64Bytes(lookUpTable, rangeStart, rangeEnd - rangeStart)
            IN  \E spill \in {0, 1, LutSlack} :
                   IF (lutI * lutChunkLength) + len + spill > Len(out)
                   THEN pc' = "undefined" /\ UNCHANGED <<out, lutI>>
                   ELSE /\ out' = ZeroFillFrom(
                                     WriteBytes(out, lutI * lutChunkLength,
                                                bytes \o Spilled(spill)),
                                     (lutI * lutChunkLength) + len,
                                     (lutI + 1) * lutChunkLength)
                        /\ lutI' = lutI + 1
                        /\ UNCHANGED pc
       ELSE pc' = "lut_returned" /\ UNCHANGED <<out, lutI>>
    /\ UNCHANGED <<lookUpTable, lookUpTableCount, compressed_lut_buffer_size,
                   lutChunkLength, lutSize>>

NextLut ==
    /\ \/ LutBufferSizeCall
       \/ CompressLutEnter
       \/ CompressLutChunk
    /\ UNCHANGED <<encoderVars, chunkBuffer, chunkVars, deltaVars, quantVars>>

(***************************************************************************)
(* The inputs of the gather: every shape within the bounds, every region   *)
(* of it that is a part of the array and holds the chunk.                  *)
(***************************************************************************)

\* the ranks tried, the largest dimensions[i], the largest arrayDimensions[i]
Ranks == {1, 2}
MaxDimension == 4
MaxArrayDimension == 3

\* what a buffer holds before the call, in every byte: zero when it is
\* fresh, something else when it was used before
FreshFills == {0}
LeftOverFills == {85, 255}

\* the locals and records before any call
InitLocals ==
    /\ encoder = NewEncoder
    /\ initError = Unassigned
    /\ size = NewElementSize
    /\ sizeError = Unassigned
    /\ arrayTotalCount = 0
    /\ rollingMultiplyTargetCube = 0
    /\ readCoordinate = U64(0)
    /\ writeCoordinate = U64(0)
    /\ linearReadCount = U64(0)
    /\ linearRead = FALSE
    /\ lengthLast = 0
    /\ lengthInChunk = 0
    /\ i_forward = 0
    /\ handed = <<>>
    /\ handed2 = <<>>
    /\ copied = <<>>

\* a region inside the bounding box and a chunk of the chunk grid
InitRegion(maxDimension, maxArrayDimension) ==
    /\ dimension_count \in Ranks
    /\ dimensions \in [1..dimension_count -> 1..maxDimension]
    /\ chunks \in [1..dimension_count -> 1..maxDimension]
    /\ \A i \in 1..dimension_count : chunks[i] <= dimensions[i]
    /\ arrayDimensions \in [1..dimension_count -> 1..maxArrayDimension]
    /\ arrayOffset \in [1..dimension_count -> 0..(maxArrayDimension - 1)]
    /\ arrayCount \in [1..dimension_count -> 1..maxArrayDimension]
    /\ \A i \in 1..dimension_count :
          /\ arrayOffset[i] + arrayCount[i] <= arrayDimensions[i]
          /\ arrayCount[i] <= dimensions[i]
    /\ chunkIndex \in
         0..(Product([i \in 1..dimension_count |->
                         DivideRoundedUp(dimensions[i], chunks[i])]) - 1)
    /\ chunkIndexOffsetInThisArray \in 0..chunkIndex

\* the chunk grid of the array: chunks along axis i (1-based), the grid
\* coordinate of a linear chunk index along axis i, the extent of the chunk
\* at grid coordinate c along axis i
GridLength(i) == DivideRoundedUp(dimensions[i], chunks[i])
RECURSIVE GridStride(_)
GridStride(i) == IF i = dimension_count THEN 1 ELSE GridStride(i + 1) * GridLength(i + 1)
GridCoordinate(index, i) == (index \div GridStride(i)) % GridLength(i)
ChunkExtent(c, i) == Min((c + 1) * chunks[i], dimensions[i]) - (c * chunks[i])

\* the region holds the whole chunk: along every axis the chunk, which starts
\* c0Offset chunks into the region, ends inside arrayCount
ChunkInsideRegion ==
    \A i \in 1..dimension_count :
        (GridCoordinate(chunkIndexOffsetInThisArray, i) * chunks[i])
            + ChunkExtent(GridCoordinate(chunkIndex, i), i) <= arrayCount[i]

\* the region is a part of the array: it starts at a chunk of the grid and
\* ends inside dimensions
RegionInsideArray ==
    \A i \in 1..dimension_count :
        /\ GridCoordinate(chunkIndexOffsetInThisArray, i) <= GridCoordinate(chunkIndex, i)
        /\ ((GridCoordinate(chunkIndex, i) - GridCoordinate(chunkIndexOffsetInThisArray, i))
               * chunks[i]) + arrayCount[i] <= dimensions[i]

\* the variables of the calls a specification does not make
IdleDelta ==
    /\ filter = "delta2d_encode8"
    /\ filterLength0 = 0
    /\ filterLength1 = 0
    /\ d0 = 0
    /\ original = <<>>

IdleQuant ==
    /\ val = NaN
    /\ quantised = 0
    /\ restored = NaN

IdleLut ==
    /\ lookUpTable = <<>>
    /\ lookUpTableCount = 0
    /\ out = <<>>
    /\ compressed_lut_buffer_size = 0
    /\ lutChunkLength = 0
    /\ lutI = 0
    /\ lutSize = 0

IdleChunk ==
    /\ compression = COMPRESSION_PFOR_DELTA2D
    /\ data_type = DATA_TYPE_INT8_ARRAY
    /\ dimension_count = 1
    /\ dimensions = <<1>>
    /\ chunks = <<1>>
    /\ arrayDimensions = <<1>>
    /\ arrayOffset = <<0>>
    /\ arrayCount = <<1>>
    /\ chunkIndex = 0
    /\ chunkIndexOffsetInThisArray = 0
    /\ chunkBuffer2 = <<>>
    /\ InitLocals

InitGather ==
    /\ pc = "start"
    /\ data_type = DATA_TYPE_INT8_ARRAY
    /\ compression = COMPRESSION_PFOR_DELTA2D
    /\ scale_factor = Rational(1, 1)
    /\ add_offset = Rational(0, 1)
    /\ InitRegion(MaxDimension, MaxArrayDimension)
    /\ ChunkInsideRegion
    /\ RegionInsideArray
    /\ chunkBuffer \in {<<fill>> : fill \in FreshFills}
    /\ chunkBuffer2 \in {<<fill>> : fill \in LeftOverFills}
    /\ InitLocals
    /\ IdleDelta /\ IdleQuant /\ IdleLut

SpecGather == InitGather /\ [][NextChunk]_vars

\* the largest dimensions[i] and arrayDimensions[i] of the calls that are
\* followed to their end
MaxFairDimension == 2
MaxFairArrayDimension == 3

InitGatherFair ==
    /\ pc = "start"
    /\ data_type = DATA_TYPE_INT8_ARRAY
    /\ compression = COMPRESSION_PFOR_DELTA2D
    /\ scale_factor = Rational(1, 1)
    /\ add_offset = Rational(0, 1)
    /\ InitRegion(MaxFairDimension, MaxFairArrayDimension)
    /\ ChunkInsideRegion
    /\ RegionInsideArray
    /\ chunkBuffer \in {<<fill>> : fill \in FreshFills}
    /\ chunkBuffer2 \in {<<fill>> : fill \in LeftOverFills}
    /\ InitLocals
    /\ IdleDelta /\ IdleQuant /\ IdleLut

\* the same calls on the smaller shapes, each of which goes on while it has
\* a step to take: the process runs until it returns or aborts
SpecGatherFair == InitGatherFair /\ [][NextChunk]_vars /\ WF_vars(NextChunk)

(***************************************************************************)
(* The inputs of the codec: every pair of a data type and a compression,   *)
(* beyond both enumerations by one, on the smaller shapes.                 *)
(***************************************************************************)

MaxCodecDimension == 2

\* om_common.h: OmDataType_t runs from DATA_TYPE_NONE = 0 to
\* DATA_TYPE_DOUBLE_ARRAY, OmCompression_t from 0 to
\* COMPRESSION_PFOR_DELTA2D_INT16_LOGARITHMIC; the values tried go beyond
\* both by one
DataTypes == 0..(DATA_TYPE_DOUBLE_ARRAY + 1)
Compressions == 0..(COMPRESSION_PFOR_DELTA2D_INT16_LOGARITHMIC + 1)
ArrayDataTypes == DATA_TYPE_INT8_ARRAY..DATA_TYPE_DOUBLE_ARRAY

Init ==
    /\ pc = "start"
    /\ data_type \in ArrayDataTypes
    /\ compression \in Compressions
    /\ scale_factor = Rational(1, 1)
    /\ add_offset = Rational(0, 1)
    /\ InitRegion(MaxCodecDimension, MaxCodecDimension)
    /\ ChunkInsideRegion
    /\ RegionInsideArray
    /\ chunkBuffer \in {<<fill>> : fill \in FreshFills}
    /\ chunkBuffer2 \in {<<fill>> : fill \in LeftOverFills}
    /\ InitLocals
    /\ IdleDelta /\ IdleQuant /\ IdleLut

Next == NextChunk

Spec == Init /\ [][Next]_vars

(***************************************************************************)
(* The inputs of the configuration calls alone: every pair of a data type  *)
(* and a compression, on every shape of one or two axes of length one or   *)
(* two.                                                                    *)
(***************************************************************************)

InitConfigure ==
    /\ pc = "start"
    /\ data_type \in DataTypes
    /\ compression \in Compressions
    /\ scale_factor = Rational(1, 1)
    /\ add_offset = Rational(0, 1)
    /\ dimension_count \in Ranks
    /\ dimensions \in [1..dimension_count -> 1..MaxCodecDimension]
    /\ chunks = dimensions
    /\ arrayDimensions = dimensions
    /\ arrayOffset = [i \in 1..dimension_count |-> 0]
    /\ arrayCount = dimensions
    /\ chunkIndex = 0
    /\ chunkIndexOffsetInThisArray = 0
    /\ chunkBuffer \in {<<fill>> : fill \in FreshFills}
    /\ chunkBuffer2 = chunkBuffer
    /\ InitLocals
    /\ IdleDelta /\ IdleQuant /\ IdleLut

NextConfigure ==
    /\ \/ GetElementSizeCall
       \/ EncoderInitCall
    /\ UNCHANGED <<deltaVars, quantVars, lutVars>>

SpecConfigure == InitConfigure /\ [][NextConfigure]_vars

(***************************************************************************)
(* The inputs of delta2d: every predictor on every shape within the        *)
(* bounds; element (d0, d1) of the buffer is one of four elements (0, 1,   *)
(* the most negative value, and one of bytes that all differ), chosen by   *)
(* a phase of the row plus the column.                                     *)
(***************************************************************************)

SampleKinds == 0..3

Sample(k, w) ==
    CASE k = 0 -> [j \in 1..w |-> 0]
      [] k = 1 -> [j \in 1..w |-> IF j = 1 THEN 1 ELSE 0]
      [] k = 2 -> [j \in 1..w |-> IF j = w THEN 128 ELSE 0]
      [] OTHER -> [j \in 1..w |-> (16 * j) + 1]

DeltaBuffer(f, len0, len1, phase) ==
    LET w == ParamBytes(f)
    IN  [b \in 1..(len0 * len1 * w) |->
            LET e == (b - 1) \div w
            IN  Sample((phase[e \div len1] + (e % len1)) % Cardinality(SampleKinds), w)[((b - 1) % w) + 1]]

InitDelta ==
    /\ pc = "unfiltered"
    /\ filter \in Filters
    /\ filterLength0 \in 0..MaxLength0
    /\ filterLength1 \in 0..MaxLength1
    /\ \E phase \in [0..(filterLength0 - 1) -> SampleKinds] :
          chunkBuffer = DeltaBuffer(filter, filterLength0, filterLength1, phase)
    /\ original = chunkBuffer
    /\ d0 = 0
    /\ scale_factor = Rational(1, 1)
    /\ add_offset = Rational(0, 1)
    /\ IdleChunk /\ IdleQuant /\ IdleLut

\* every loop of delta2d.c goes on while it can
SpecDelta == InitDelta /\ [][NextDelta]_vars /\ WF_vars(NextDelta)

(***************************************************************************)
(* The inputs of the Int16 round trip: scale factors that are powers of    *)
(* two, whole offsets, and floats in quarters of a quantisation step at    *)
(* both ends of the interval that maps into int16_t and around zero.       *)
(***************************************************************************)

MaxScaleExponent == 2
MaxOffset == 5
MaxQuantSteps == 8

RECURSIVE Pow2(_)
Pow2(k) == IF k = 0 THEN 1 ELSE 2 * Pow2(k - 1)

Scales == {Rational(1, 2)} \cup {Rational(Pow2(k), 1) : k \in 0..MaxScaleExponent}
Offsets == {Rational(o, 1) : o \in (-MaxOffset)..MaxOffset}

\* the ends of [INT16_MIN/s - o + 1/s, (INT16_MAX - 1)/s - o] in units of
\* 1/(4 * s.num), for s = s.num/s.den and a whole o
LowestInput(s, o) == 4 * (((INT16_MIN + 1) * s.den) - (o.num * s.num))
HighestInput(s, o) == 4 * (((INT16_MAX - 1) * s.den) - (o.num * s.num))

QuantInputs(s, o) ==
    {NaN}
    \cup {Rational(LowestInput(s, o) + j, 4 * s.num) : j \in 0..MaxQuantSteps}
    \cup {Rational(HighestInput(s, o) - j, 4 * s.num) : j \in 0..MaxQuantSteps}
    \cup {Rational(j, 4 * s.num) : j \in (-MaxQuantSteps)..MaxQuantSteps}

InitQuant ==
    /\ pc = "float"
    /\ scale_factor \in Scales
    /\ add_offset \in Offsets
    /\ val \in QuantInputs(scale_factor, add_offset)
    /\ quantised = 0
    /\ restored = NaN
    /\ chunkBuffer = <<>>
    /\ IdleChunk /\ IdleDelta /\ IdleLut

SpecQuant == InitQuant /\ [][NextQuant]_vars

(***************************************************************************)
(* The inputs of the look-up table calls: tables that end on a range       *)
(* boundary or one entry after it, every length the encoder may return for *)
(* each range within the bound.                                            *)
(***************************************************************************)

MaxLutChunks == 3
MaxEncodedLength == 3

LutCounts ==
    {m \in 1..(MaxLutChunks * LUT_CHUNK_COUNT) : m % LUT_CHUNK_COUNT \in {0, 1}}

InitLut ==
    /\ pc = "table"
    /\ lookUpTableCount \in LutCounts
    /\ lookUpTable \in [1..LutChunks(lookUpTableCount) -> 0..MaxEncodedLength]
    /\ out \in {<<fill>> : fill \in FreshFills \cup LeftOverFills}
    /\ compressed_lut_buffer_size = 0
    /\ lutChunkLength = 0
    /\ lutI = 0
    /\ lutSize = 0
    /\ scale_factor = Rational(1, 1)
    /\ add_offset = Rational(0, 1)
    /\ chunkBuffer = <<>>
    /\ IdleChunk /\ IdleDelta /\ IdleQuant

SpecLut == InitLut /\ [][NextLut]_vars

(***************************************************************************)
(* The chunk as the gather is to produce it.                               *)
(***************************************************************************)

\* the extent of the chunk along axis i (1-based) and the elements of the
\* chunk in one step along axis i
ThisChunkExtent(i) == ChunkExtent(GridCoordinate(chunkIndex, i), i)
RECURSIVE ChunkStride(_)
ChunkStride(i) == IF i = dimension_count THEN 1 ELSE ChunkStride(i + 1) * ThisChunkExtent(i + 1)
RECURSIVE ArrayStride(_)
ArrayStride(i) == IF i = dimension_count THEN 1 ELSE ArrayStride(i + 1) * arrayDimensions[i + 1]

\* the elements of the chunk
ChunkElements == ChunkStride(1) * ThisChunkExtent(1)

RECURSIVE SourceIndexFrom(_, _)
\* the index in the source array of the k-th element (0-based) of the chunk
\* in row-major order: along axis i the chunk starts arrayOffset[i] plus
\* c0Offset chunks into the bounding box
SourceIndexFrom(k, i) ==
    IF i > dimension_count THEN 0
    ELSE (ArrayStride(i)
            * (arrayOffset[i]
                 + (GridCoordinate(chunkIndexOffsetInThisArray, i) * chunks[i])
                 + ((k \div ChunkStride(i)) % ThisChunkExtent(i))))
         + SourceIndexFrom(k, i + 1)
SourceIndex(k) == SourceIndexFrom(k, 1)

\* the chunk's elements in row-major order, each as the copy stage stores it
GatheredChunk ==
    LET from == encoder.bytes_per_element
        to   == encoder.bytes_per_element_compressed
    IN  [b \in 1..(ChunkElements * to) |->
            CopyElement(encoder.compress_copy_callback, encoder.scale_factor,
                        encoder.add_offset,
                        SourceElement(data_type, from, SourceIndex((b - 1) \div to)))
                [((b - 1) % to) + 1]]

(***************************************************************************)
(* The gather of om_encoder_compress_chunk (SpecGather).                   *)
(***************************************************************************)

\* the call went wrong: an assertion failed, or it left defined behaviour
WentWrong == pc \in {"abort", "undefined"}

\* C1: every call of om_encoder_compress_chunk on a sub-region
\* (arrayOffset, arrayCount) inside the bounding box arrayDimensions that
\* holds the chunk gathers the chunk: it gets to the predictor without a
\* failed assertion and without a copy outside the source array or the
\* chunk buffer, and the chunk buffer then holds, at positions
\* 0..lengthInChunk-1, exactly the chunk's elements in row-major order.
GatherIsTheChunk ==
    /\ ~WentWrong
    /\ pc = "predict" =>
          /\ lengthInChunk = ChunkElements
          /\ HandedBytes(chunkBuffer) = GatheredChunk

\* the preconditions of the caller: the sub-region lies inside the bounding
\* box, and on every axis the chunk extent is at most arrayCount[i] and at
\* most arrayDimensions[i]
CallerPreconditions ==
    \A i \in 1..dimension_count :
        /\ arrayOffset[i] + arrayCount[i] <= arrayDimensions[i]
        /\ ThisChunkExtent(i) <= arrayCount[i]
        /\ ThisChunkExtent(i) <= arrayDimensions[i]

\* C2: whenever the caller's preconditions hold, both loop assertions
\* (readCoordinate + linearReadCount <= product(arrayDimensions) and
\* writeCoordinate + linearReadCount <= lengthInChunk) hold at the start of
\* every iteration of the main copy loop.
LoopAssertionsAlwaysHold ==
    (pc = "loop" /\ CallerPreconditions) => LoopAssertionsHold

RECURSIVE CopiedElements(_)
\* the elements passed to the copy callback over the calls of log
CopiedElements(log) ==
    IF log = <<>> THEN 0 ELSE Head(log).length + CopiedElements(Tail(log))

\* the product over the axes of min((c_i+1)*chunks[i], dimensions[i]) - c_i*chunks[i]
LogicalElements ==
    Product([i \in 1..dimension_count |->
               LET c   == GridCoordinate(chunkIndex, i)
                   end == (c + 1) * chunks[i]
               IN  (IF end < dimensions[i] THEN end ELSE dimensions[i]) - (c * chunks[i])])

\* C3: when om_encoder_compress_chunk reaches the predict+encode step, the
\* elements passed to the copy callback over all iterations (the final
\* writeCoordinate) are lengthInChunk, lengthLast is non-zero and divides
\* lengthInChunk, so that the predictor's (lengthInChunk / lengthLast,
\* lengthLast) multiply to lengthInChunk, lengthInChunk is the product of the
\* chunk's extents, and the entropy encoder is given lengthInChunk elements.
StageCountsAgree ==
    /\ pc = "predict" =>
          /\ writeCoordinate = U64(lengthInChunk)
          /\ CopiedElements(copied) = lengthInChunk
          /\ lengthLast # 0
          /\ lengthInChunk % lengthLast = 0
          /\ (lengthInChunk \div lengthLast) * lengthLast = lengthInChunk
          /\ lengthInChunk = LogicalElements
    /\ pc = "returned" =>
          Len(handed) = LogicalElements * encoder.bytes_per_element_compressed

RECURSIVE RunFrom(_, _)
\* the elements from the k-th element of the chunk on that are consecutive
\* in chunk order and contiguous in the source array, n of them already found
RunFrom(k, n) ==
    IF k + n < ChunkElements /\ SourceIndex(k + n) = SourceIndex(k) + n
    THEN RunFrom(k, n + 1)
    ELSE n

\* the largest run that starts at the k-th element of the chunk
MaximalRun(k) == RunFrom(k, 1)

\* axis i (1-based) is fully covered by the chunk:
\* arrayCount[i] == length0 == arrayDimensions[i]
FullyCovered(i) ==
    arrayCount[i] = ThisChunkExtent(i) /\ arrayDimensions[i] = ThisChunkExtent(i)

RECURSIVE CoveredRunFrom(_)
\* the product of the chunk's extents over the axes from i inwards, as far
\* out as the axes are fully covered
CoveredRunFrom(i) ==
    IF i >= 1 /\ FullyCovered(i)
    THEN ThisChunkExtent(i) * CoveredRunFrom(i - 1)
    ELSE 1

\* the run across the fully covered inner axes; the innermost extent when
\* the innermost axis is partially covered
CoveredRun ==
    IF FullyCovered(dimension_count)
    THEN CoveredRunFrom(dimension_count)
    ELSE ThisChunkExtent(dimension_count)

\* the run the copy callback is about to be given starts at the element of
\* the source array that the next element of the chunk is
RunStartsInChunk ==
    /\ IsSmall(writeCoordinate) /\ IsSmall(readCoordinate) /\ IsSmall(linearReadCount)
    /\ NatOf(writeCoordinate) < ChunkElements
    /\ NatOf(readCoordinate) = SourceIndex(NatOf(writeCoordinate))

\* where the chunk ends along axis i (1-based) in the bounding box
ChunkEnd(i) ==
    arrayOffset[i] + (GridCoordinate(chunkIndexOffsetInThisArray, i) * chunks[i])
        + ThisChunkExtent(i)

\* on some axis with a non-zero arrayOffset the chunk reaches the last index
\* of the bounding box
ChunkEndsAtLastIndex ==
    \E i \in 1..dimension_count :
        arrayOffset[i] > 0 /\ ChunkEnd(i) = arrayDimensions[i]

OdometerInStep ==
    /\ ~WentWrong
    /\ pc = "loop" =>
          /\ IsSmall(writeCoordinate)
          /\ NatOf(writeCoordinate) < ChunkElements
    /\ pc \in {"predict", "returned"} => CopiedElements(copied) = ChunkElements

\* C14: for every valid input (rank >= 1, sub-region inside the bounding box
\* and holding the chunk) the while(true) loop of om_encoder_compress_chunk
\* makes finitely many copy-callback calls and then, when the odometer wraps
\* the outermost axis, runs the predictor and the entropy encoder once and
\* returns; the odometer never breaks out on an axis that has wrapped and
\* never wraps one that has not, so that the call neither loops forever nor
\* returns before all rows of the chunk have been copied.
CompressChunkTerminates ==
    /\ []OdometerInStep
    /\ <>(pc = "returned")

(***************************************************************************)
(* The predictors of delta2d.c (SpecDelta).                                *)
(***************************************************************************)

\* C4: for every (length0, length1), 0 and 1 included, and every buffer,
\* delta2d_encodeW followed by delta2d_decodeW (W in 8, 16, 32, 64),
\* delta2d_encode_xor followed by delta2d_decode_xor, and
\* delta2d_encode_xor_double followed by delta2d_decode_xor_double return
\* the buffer bit-exactly to its original content.
PredictorInverse == pc = "decoded" => chunkBuffer = original

\* C4: the XOR predictor for doubles has encoded and decoded a buffer of
\* three rows of two elements that are not all alike.
PredictorInverseWitness ==
    /\ pc = "decoded"
    /\ filter = "delta2d_encode_xor_double"
    /\ filterLength0 = 3
    /\ filterLength1 = 2
    /\ Elem(original, 0, 8) # Elem(original, 2, 8)
    /\ Elem(original, 2, 8) # Elem(original, 4, 8)

\* original[d0][d1] - original[d0-1][d1] modulo 2^W
Differenced(row, d1) ==
    LET w == ParamBytes(filter)
    IN  WSub(Elem(original, (row * filterLength1) + d1, w),
             Elem(original, ((row - 1) * filterLength1) + d1, w))

\* row holds the differences against the original previous row
RowDifferenced(row) ==
    \A d1 \in 0..(filterLength1 - 1) :
        Elem(chunkBuffer, (row * filterLength1) + d1, ParamBytes(filter))
            = Differenced(row, d1)

\* row holds what it held before the call
RowUntouched(row) ==
    \A d1 \in 0..(filterLength1 - 1) :
        Elem(chunkBuffer, (row * filterLength1) + d1, ParamBytes(filter))
            = Elem(original, (row * filterLength1) + d1, ParamBytes(filter))

\* what delta2d_encodeW has made of the buffer, in its loop and after it
ForwardResult ==
    filter \in IntegerFilters =>
        /\ pc = "encode_loop" =>
              \A row \in 0..(filterLength0 - 1) :
                  IF row > d0 THEN RowDifferenced(row) ELSE RowUntouched(row)
        /\ pc = "encoded" =>
              /\ Len(chunkBuffer) = Len(original)
              /\ filterLength0 <= 1 => chunkBuffer = original
              /\ \A row \in 0..(filterLength0 - 1) :
                    IF row >= 1 THEN RowDifferenced(row) ELSE RowUntouched(row)

\* C10: for every W in {8, 16, 32, 64}, every (length0, length1) and every
\* buffer, delta2d_encodeW processes the rows from length0-1 down to 1,
\* leaves the top row untouched and every element of a row d0 >= 1 equal to
\* (original[d0][d1] - original[d0-1][d1]) mod 2^W, leaves the buffer
\* unchanged if length0 <= 1, and its descending loop terminates.
ForwardDelta ==
    /\ []ForwardResult
    /\ (filter \in IntegerFilters) => <>(pc = "encoded")

\* C10: delta2d_encode16 has returned from a buffer of three rows of two
\* elements, the last two rows of which it changed.
ForwardDeltaWitness ==
    /\ pc = "encoded"
    /\ filter = "delta2d_encode16"
    /\ filterLength0 = 3
    /\ filterLength1 = 2
    /\ Elem(chunkBuffer, 2, 2) # Elem(original, 2, 2)
    /\ Elem(chunkBuffer, 4, 2) # Elem(original, 4, 2)

\* original[d0][d1] XOR original[d0-1][d1] on the patterns of the element's
\* own width
XorOfOriginals(row, d1) ==
    LET w == ParamBytes(filter)
    IN  WXor(Elem(original, (row * filterLength1) + d1, w),
             Elem(original, ((row - 1) * filterLength1) + d1, w))

\* row holds the XOR of its elements with the original previous row
RowXored(row) ==
    \A d1 \in 0..(filterLength1 - 1) :
        Elem(chunkBuffer, (row * filterLength1) + d1, ParamBytes(filter))
            = XorOfOriginals(row, d1)

\* C11: delta2d_encode_xor on a Float32 buffer and delta2d_encode_xor_double
\* on a Float64 buffer replace every element of a row d0 >= 1, at the
\* element's own width (32 or 64 bits), by the XOR of its pattern with the
\* original pattern of the element directly above it, over all
\* length0*length1 elements of the buffer, and leave row 0 untouched.
XorAtElementWidth ==
    (pc = "encoded" /\ filter \in XorFilters) =>
        /\ Len(chunkBuffer) = Len(original)
        /\ \A row \in 0..(filterLength0 - 1) :
              IF row >= 1 THEN RowXored(row) ELSE RowUntouched(row)

(***************************************************************************)
(* The Int16 round trip (SpecQuant).                                       *)
(***************************************************************************)

\* a <= b, for rationals with positive denominators
RationalLeq(a, b) == a.num * b.den <= b.num * a.den

\* |a - b| <= 1/s
WithinOneStep(a, b, s) ==
    LET diff == (a.num * b.den) - (b.num * a.den)
        dist == IF diff < 0 THEN -diff ELSE diff
    IN  dist * s.num <= s.den * a.den * b.den

\* x lies in [INT16_MIN/s - o + 1/s, (INT16_MAX-1)/s - o]
InQuantRange(x, s, o) ==
    /\ ~x.nan
    /\ RationalLeq(Rational(LowestInput(s, o), 4 * s.num), x)
    /\ RationalLeq(x, Rational(HighestInput(s, o), 4 * s.num))

\* C6: for every scale s and every offset o, om_common_copy_int16_to_float
\* applied to what om_common_copy_float_to_int16 stored for a finite x in
\* [INT16_MIN/s - o + 1/s, (INT16_MAX-1)/s - o] yields a value within 1/s of
\* x; NaN maps to INT16_MAX and back to NaN.
RoundTripBound ==
    pc = "float_again" =>
        /\ val.nan => (quantised = INT16_MAX /\ restored.nan)
        /\ InQuantRange(val, scale_factor, add_offset) =>
              (~restored.nan /\ WithinOneStep(restored, val, scale_factor))

(***************************************************************************)
(* The scratch buffer (Spec).                                              *)
(***************************************************************************)

\* C5: two calls of om_encoder_compress_chunk with the same arguments but
\* different prior contents of the chunkBuffer scratch hand identical bytes
\* (all lengthInChunk * bytes_per_element_compressed of them) to the entropy
\* encoder, for every accepted (data_type, compression) pair.
HandedBytesDetermined == pc = "returned" => handed = handed2

(***************************************************************************)
(* The configuration calls (SpecConfigure).                                *)
(***************************************************************************)

KnownCompressions ==
    {COMPRESSION_PFOR_DELTA2D_INT16, COMPRESSION_FPX_XOR2D,
     COMPRESSION_PFOR_DELTA2D, COMPRESSION_PFOR_DELTA2D_INT16_LOGARITHMIC}

\* data_type is one of the ten numeric array types
Supported(type) == type \in ArrayDataTypes

\* data_type does not go with the compression: Int16 / Int16_Log with
\* anything but Float, FpxXor2D with anything but Float or Double
Incompatible(type, comp) ==
    \/ /\ comp \in {COMPRESSION_PFOR_DELTA2D_INT16,
                    COMPRESSION_PFOR_DELTA2D_INT16_LOGARITHMIC}
       /\ type # DATA_TYPE_FLOAT_ARRAY
    \/ /\ comp = COMPRESSION_FPX_XOR2D
       /\ type \notin {DATA_TYPE_FLOAT_ARRAY, DATA_TYPE_DOUBLE_ARRAY}

\* on ERROR_OK all three stage callbacks have been assigned
StagesAssigned ==
    initError = ERROR_OK =>
        /\ encoder.compress_copy_callback # Unassigned
        /\ encoder.compress_filter_callback # Unassigned
        /\ encoder.compress_callback # Unassigned

\* C7, as the code has it: for every (data_type, compression) pair,
\* out-of-range values included, om_encoder_init returns
\* ERROR_INVALID_DATA_TYPE when data_type is not one of the ten array types
\* (whatever the compression), else ERROR_INVALID_COMPRESSION_TYPE when
\* compression is unknown, else ERROR_INVALID_DATA_TYPE when data_type is
\* incompatible with the compression, and ERROR_OK for the remaining pairs;
\* on ERROR_OK all three stage callbacks have been assigned.
InitErrorContract ==
    pc \in {"configured", "rejected"} =>
        /\ initError =
              IF ~Supported(data_type) THEN ERROR_INVALID_DATA_TYPE
              ELSE IF compression \notin KnownCompressions
                   THEN ERROR_INVALID_COMPRESSION_TYPE
              ELSE IF Incompatible(data_type, compression)
                   THEN ERROR_INVALID_DATA_TYPE
              ELSE ERROR_OK
        /\ StagesAssigned

\* C7: om_encoder_init has rejected an unsupported data type together with
\* an unknown compression, as an invalid data type.
InitErrorWitness ==
    /\ pc = "rejected"
    /\ ~Supported(data_type)
    /\ compression \notin KnownCompressions
    /\ initError = ERROR_INVALID_DATA_TYPE

\* C7, as stated: om_encoder_init returns ERROR_INVALID_DATA_TYPE when
\* data_type is unsupported or incompatible with the chosen compression,
\* ERROR_INVALID_COMPRESSION_TYPE when compression is unknown, and ERROR_OK
\* exactly for the remaining pairs; on ERROR_OK all three stage callbacks
\* have been assigned.
InitErrorContractAsStated ==
    pc \in {"configured", "rejected"} =>
        /\ (~Supported(data_type) \/ Incompatible(data_type, compression))
              => initError = ERROR_INVALID_DATA_TYPE
        /\ compression \notin KnownCompressions
              => initError = ERROR_INVALID_COMPRESSION_TYPE
        /\ initError = ERROR_OK <=>
              /\ Supported(data_type)
              /\ compression \in KnownCompressions
              /\ ~Incompatible(data_type, compression)
        /\ StagesAssigned

\* C12: for every (data_type, compression) pair om_encoder_init accepts, the
\* copy callback it selected reads bytes_per_element bytes and writes
\* bytes_per_element_compressed bytes per element, so that a call of length
\* n transfers n whole elements, whichever of the two switches assigned it
\* last; the straight-copy configurations of Int64 and UInt64 (PforDelta2D)
\* and Double (FpxXor2D) copy n*8 bytes.
CopyWidthMatches ==
    pc = "configured" =>
        /\ encoder.compress_copy_callback \in CopyCallbacks
        /\ CopyReadBytes(encoder.compress_copy_callback) = encoder.bytes_per_element
        /\ CopyWriteBytes(encoder.compress_copy_callback)
              = encoder.bytes_per_element_compressed

\* sizeof the elements of an array data type
NativeBytes(type) ==
    CASE type \in {DATA_TYPE_INT8_ARRAY, DATA_TYPE_UINT8_ARRAY} -> 1
      [] type \in {DATA_TYPE_INT16_ARRAY, DATA_TYPE_UINT16_ARRAY} -> 2
      [] type \in {DATA_TYPE_INT32_ARRAY, DATA_TYPE_UINT32_ARRAY,
                   DATA_TYPE_FLOAT_ARRAY} -> 4
      [] OTHER -> 8

\* the pairs the table of element sizes has, and their sizes
InSizeTable(type, comp) ==
    /\ Supported(type)
    /\ comp \in KnownCompressions
    /\ ~Incompatible(type, comp)

TableSize(type, comp) ==
    IF comp \in {COMPRESSION_PFOR_DELTA2D_INT16,
                 COMPRESSION_PFOR_DELTA2D_INT16_LOGARITHMIC}
    THEN [bytes_per_element |-> 4, bytes_per_element_compressed |-> 2]
    ELSE [bytes_per_element |-> NativeBytes(type),
          bytes_per_element_compressed |-> NativeBytes(type)]

\* C8: om_get_element_size returns ERROR_OK with the sizes of the table
\* ((4, 2) for Float with PforDelta2D_Int16 or PforDelta2D_Int16_Log,
\* (native, native) for the ten array types with PforDelta2D, (4, 4) or
\* (8, 8) for Float or Double with FpxXor2D), rejects every other pair
\* (FpxXor2D with an integer data type among them), and accepts exactly the
\* pairs om_encoder_init accepts, with the same sizes and the same error
\* code.
ElementSizeTable ==
    /\ pc \in {"sized", "configured", "rejected"} =>
          IF InSizeTable(data_type, compression)
          THEN sizeError = ERROR_OK /\ size = TableSize(data_type, compression)
          ELSE sizeError # ERROR_OK
    /\ pc \in {"configured", "rejected"} =>
          /\ sizeError = initError
          /\ initError = ERROR_OK =>
                /\ size.bytes_per_element = encoder.bytes_per_element
                /\ size.bytes_per_element_compressed
                      = encoder.bytes_per_element_compressed

(***************************************************************************)
(* The look-up table (SpecLut).                                            *)
(***************************************************************************)

\* the largest length the encoder returns for a range of the table
LongestEncoding ==
    CHOOSE m \in 0..MaxEncodedLength :
        /\ \A b \in 1..Len(lookUpTable) : lookUpTable[b] <= m
        /\ \E b \in 1..Len(lookUpTable) : lookUpTable[b] = m

\* slot b (0-based) of out holds the encoding of range b, which fits, and
\* zeros after it
SlotFilled(b) ==
    /\ lookUpTable[b + 1] <= lutChunkLength
    /\ \A k \in 1..lutChunkLength :
          out[(b * lutChunkLength) + k]
             = IF k <= lookUpTable[b + 1] THEN b + 1 ELSE 0

\* C9: for every table of M >= 1 entries, when om_encoder_compress_lut is
\* given the buffer size om_encoder_lut_buffer_size returned for the same
\* table, lutChunkLength is the largest encoded length, each of the
\* ceil(M/256) ranges is encoded at byte i*lutChunkLength and fits its slot,
\* every byte of a slot after the encoding is zero, and the function
\* returns size - 32*8 = lutChunkLength * ceil(M/256).
LutLayout ==
    /\ pc # "undefined"
    /\ pc \in {"lut_loop", "lut_returned"} =>
          /\ lutChunkLength = LongestEncoding
          /\ \A b \in 0..(lutI - 1) : SlotFilled(b)
    /\ pc = "lut_returned" =>
          /\ lutI = LutChunks(lookUpTableCount)
          /\ lutI = (lookUpTableCount + 255) \div 256
          /\ lutSize = compressed_lut_buffer_size - (32 * 8)
          /\ lutSize = lutChunkLength * lutI

\* C9: a table of three ranges whose encodings differ in length has been
\* compressed into a buffer that held other bytes before, and the encoder
\* wrote past its last encoding.
LutLayoutWitness ==
    /\ pc = "lut_returned"
    /\ Len(lookUpTable) = 3
    /\ lookUpTable[1] < lookUpTable[2]
    /\ lookUpTable[3] < lookUpTable[2]
    /\ lookUpTable[3] > 0
    /\ out[Len(out)] \in LeftOverFills
    /\ out[lutSize + 1] = Spilled(1)[1]
====
